---- MODULE Spec2Model ----
(***************************************************************************)
(* Model of rs485_test_v2.py: the RS485 packet transmission sequencer for  *)
(* the Goodwe inverter (class RS485Tester and main).                       *)
(*                                                                         *)
(* The program is one sequential flow of control; pc is its position.      *)
(* The serial transport (pyserial) and the operator are the environment:   *)
(* every transport call chooses its outcome nondeterministically, the peer *)
(* may put bytes into the input buffer at any time, and a KeyboardInterrupt*)
(* may be delivered at any position of the flow.                           *)
(***************************************************************************)
EXTENDS Integers, Sequences, FiniteSets, TLC

VARIABLES
    pc,             \* position of the single flow of control
    transport,      \* kind of transport the run talks to (fixed for a run)
    serial_conn,    \* self.serial_conn: "None" or "Serial"
    is_open,        \* self.serial_conn.is_open
    in_buf,         \* transport input buffer: set of byte tags
    phase,          \* phase of run_full_test being executed (0 = none)
    i,              \* loop variable of send_packet_multiple_times
    successful,     \* local counter of send_packet_multiple_times
    phase_success,  \* phase1_success .. phase5_success assigned so far
    bytes_written,  \* local of send_packet (-1 = not assigned)
    send_result,    \* (success, response) returned by the last send_packet
    exc,            \* exception being handled by run_full_test
    success,        \* main's local: "unset", "True", "False"
    exitCode,       \* process exit status (-1 = still running)
    \* history variables (observations, never read by the program)
    attemptLog,     \* send_packet calls started, in order
    ops,            \* transport operations issued by the current attempt
    lastWrite,      \* outcome of the write of the current attempt
    spRaised,       \* exception raised by a transport call in this attempt
    okReturns,      \* send_packet calls of this phase that returned success
    closeCount,     \* number of underlying close() operations performed
    nIntr,          \* KeyboardInterrupts delivered so far
    intrPhase,      \* phase executing when run_full_test was interrupted
    intrSummary,    \* the interrupt arrived while the summary was emitted
    summary,        \* grand total reported by the summary (-1 = not emitted)
    intervalWaits,  \* inter-attempt waits performed in the current phase
    pauses,         \* inter-phase delays performed
    cleared,        \* buffers cleared by connect since the port was opened
    openCount,      \* number of successful opens of the transport
    apiCalls,       \* method calls made by a direct user of the class
    disconnects     \* calls of disconnect

vars == <<pc, transport, serial_conn, is_open, in_buf, phase, i, successful,
          phase_success, bytes_written, send_result, exc, success, exitCode,
          attemptLog, ops, lastWrite, spRaised, okReturns, closeCount, nIntr,
          intrPhase, intrSummary, summary, intervalWaits, pauses, cleared,
          openCount, apiCalls, disconnects>>

----------------------------------------------------------------------------
(* Packet catalog (class constants).                                       *)

OFFLINE_QUERY_PACKET == <<170, 85, 128, 127, 0, 0, 0, 1, 254>>
REMOVE_REGISTER_PACKET == <<170, 85, 128, 127, 0, 2, 0, 2, 0>>
ALLOCATE_REGISTER_ADDRESS_PACKET ==
    <<170, 85, 128, 127, 0, 0, 17, 49, 51, 48, 48, 48, 83, 83, 85, 49, 50,
      53, 48, 48, 48, 57, 56, 17, 5, 169>>
READ_DATA_PACKET == <<170, 85, 128, 17, 1, 1, 0, 1, 146>>

\* number of phases run_full_test composes
NumPhases == 5

\* count= argument of every send_packet_multiple_times call
PhaseCount == 5

\* variant: phase 3 repeats the packet of phase 2 instead of phase 1
PhasePacket_Phase3Swapped(p) ==
    CASE p = 1 -> OFFLINE_QUERY_PACKET
      [] p = 2 -> REMOVE_REGISTER_PACKET
      [] p = 3 -> REMOVE_REGISTER_PACKET
      [] p = 4 -> ALLOCATE_REGISTER_ADDRESS_PACKET
      [] p = 5 -> READ_DATA_PACKET

\* the packet run_full_test passes to send_packet_multiple_times in phase p
PhasePacket(p) ==
    CASE p = 1 -> OFFLINE_QUERY_PACKET
      [] p = 2 -> REMOVE_REGISTER_PACKET
      [] p = 3 -> OFFLINE_QUERY_PACKET
      [] p = 4 -> ALLOCATE_REGISTER_ADDRESS_PACKET
      [] p = 5 -> READ_DATA_PACKET

\* the packet_name run_full_test passes in phase p
PhaseName(p) ==
    CASE p = 1 -> "Off-line Query"
      [] p = 2 -> "Remove Register"
      [] p = 3 -> "Off-line Query (Repeated)"
      [] p = 4 -> "Allocate Register Address"
      [] p = 5 -> "Read Data"

----------------------------------------------------------------------------
(* The environment: the serial transport and its possible outcomes.        *)

\* kinds of transport a run may talk to: an arbitrary one, one that fails
\* every write, and one that accepts every write and never replies
TransportKinds == {"any", "failsEveryWrite", "acceptsNeverReplies"}

\* exception classes that derive from Exception
ExceptionClasses == {"SerialTimeoutException", "SerialException", "Exception"}

\* response value None (no reply read)
None == {"None"}

\* value of send_result while no send_packet has returned
NoResult == [success |-> FALSE, response |-> {"unset"}]

\* outcomes of serial.Serial(...): the port opens or SerialException
OpenOutcomes(kind) ==
    IF kind = "acceptsNeverReplies" THEN {"ok"} ELSE {"ok", "SerialException"}

\* input buffer contents right after the port was opened
OpenBuffers(kind) ==
    IF kind = "acceptsNeverReplies" THEN {{}} ELSE {{}, {"stale"}}

\* outcomes of reset_input_buffer / reset_output_buffer / flush / in_waiting
\* (termios / ioctl failures surface as plain Exception subclasses)
CallOutcomes(kind) ==
    IF kind = "acceptsNeverReplies" THEN {"ok"} ELSE {"ok", "Exception"}

\* outcomes of serial_conn.write(packet)
WriteOutcomes(kind) ==
    CASE kind = "acceptsNeverReplies" -> {"full"}
      [] kind = "failsEveryWrite" ->
             {"partial", "SerialTimeoutException", "SerialException"}
      [] OTHER ->
             {"full", "partial", "SerialTimeoutException", "SerialException"}

\* byte counts a partial write may report for a packet of n bytes
PartialCounts(n) == {0, 5, n - 1}

\* outcomes of serial_conn.read(n)
ReadOutcomes(kind) == {"ok", "SerialException"}

\* exit status of a process ended by an uncaught KeyboardInterrupt
\* (1 from the default excepthook, 130 when the interpreter re-raises SIGINT)
UncaughtInterruptStatus == {1, 130}

----------------------------------------------------------------------------
(* Exception handlers.                                                     *)

\* connect: except serial.SerialException / except Exception
ConnectCatches(e) == e \in ExceptionClasses

\* variant: the generic "except Exception" clause is missing
SendPacketCatches_SerialOnly(e) ==
    e \in {"SerialTimeoutException", "SerialException"}

\* variant: only the write timeout is handled
SendPacketCatches_TimeoutOnly(e) == e = "SerialTimeoutException"

\* send_packet: except SerialTimeoutException / SerialException / Exception
SendPacketCatches(e) == e \in ExceptionClasses

\* variant: the "except KeyboardInterrupt" clause is missing
RunFullTestCatches_NoInterrupt(e) == e \in ExceptionClasses

\* run_full_test: except KeyboardInterrupt / except Exception
RunFullTestCatches(e) == e = "KeyboardInterrupt" \/ e \in ExceptionClasses

\* main: except Exception
MainCatches(e) == e \in ExceptionClasses

\* positions inside the try body of connect
ConnectPcs == {"connect_open", "connect_reset_input", "connect_reset_output"}

\* positions inside the try body of send_packet
SendPacketPcs == {"sp_reset_input", "sp_write", "sp_flush", "sp_sleep", "sp_read"}

\* positions inside the try body of run_full_test, outside send_packet's try
RunFullTestPcs == {"smt_begin", "smt_loop", "smt_tally", "smt_interval",
                   "smt_return", "rft_pause", "rft_summary", "rft_return"}

\* the innermost try body enclosing position p
FrameOf(p) ==
    CASE p \in ConnectPcs -> "connect"
      [] p \in SendPacketPcs -> "send_packet"
      [] p \in RunFullTestPcs -> "run_full_test"
      [] OTHER -> "main"

\* the handler that catches e raised in try body frame
Handler(e, frame) ==
    CASE frame = "send_packet" /\ SendPacketCatches(e) -> "send_packet"
      [] frame = "connect" /\ ConnectCatches(e) -> "connect"
      [] frame \in {"send_packet", "run_full_test"}
           /\ ~(frame = "send_packet" /\ SendPacketCatches(e))
           /\ RunFullTestCatches(e) -> "run_full_test"
      [] OTHER -> IF MainCatches(e) THEN "main" ELSE "uncaught"

\* Control transfer when e is raised in try body frame: the handler's
\* effect on the flow of control and on the locals of the frames unwound.
Unwind(e, frame) ==
    LET h == Handler(e, frame) IN
    CASE h = "send_packet" ->
            /\ pc' = "smt_tally"
            /\ send_result' = [success |-> FALSE, response |-> None]
            /\ bytes_written' = -1
            /\ UNCHANGED <<exc, exitCode, i, successful, phase, phase_success>>
      [] h = "run_full_test" ->
            /\ pc' = "rft_except"
            /\ exc' = e
            /\ send_result' = NoResult
            /\ bytes_written' = -1
            /\ i' = 0
            /\ successful' = 0
            /\ UNCHANGED <<exitCode, phase, phase_success>>
      [] h = "connect" ->
            /\ pc' = "main_connect_failed"
            /\ UNCHANGED <<exc, exitCode, send_result, bytes_written, i,
                           successful, phase, phase_success>>
      [] h = "main" ->
            /\ pc' = "exited"
            /\ exitCode' = 1
            /\ send_result' = NoResult
            /\ bytes_written' = -1
            /\ i' = 0
            /\ successful' = 0
            /\ phase' = 0
            /\ phase_success' = <<>>
            /\ UNCHANGED exc
      [] OTHER ->
            /\ pc' = "exited"
            /\ exitCode' \in UncaughtInterruptStatus
            /\ send_result' = NoResult
            /\ bytes_written' = -1
            /\ i' = 0
            /\ successful' = 0
            /\ phase' = 0
            /\ phase_success' = <<>>
            /\ UNCHANGED exc

----------------------------------------------------------------------------
(* Initial state: the tester was constructed, nothing is connected.        *)

Init ==
    /\ pc = "connect_open"
    /\ transport \in TransportKinds
    /\ serial_conn = "None"
    /\ is_open = FALSE
    /\ in_buf = {}
    /\ phase = 0
    /\ i = 0
    /\ successful = 0
    /\ phase_success = <<>>
    /\ bytes_written = -1
    /\ send_result = NoResult
    /\ exc = "none"
    /\ success = "unset"
    /\ exitCode = -1
    /\ attemptLog = <<>>
    /\ ops = <<>>
    /\ lastWrite = "none"
    /\ spRaised = "none"
    /\ okReturns = 0
    /\ closeCount = 0
    /\ nIntr = 0
    /\ intrPhase = 0
    /\ intrSummary = FALSE
    /\ summary = -1
    /\ intervalWaits = 0
    /\ pauses = 0
    /\ cleared = {}
    /\ openCount = 0
    /\ apiCalls = 0
    /\ disconnects = 0

\* variables written only by Unwind and by the steps of the test run
flowVars == <<exc, send_result, bytes_written, i, successful, exitCode,
              phase, phase_success>>

\* history variables of the current attempt
attemptVars == <<attemptLog, ops, lastWrite, spRaised>>

\* history variables of interrupts
intrVars == <<nIntr, intrPhase, intrSummary>>

\* history variable of the phase
phaseVars == <<okReturns>>

\* history variables of the run and of the connection
histVars == <<summary, intervalWaits, pauses, cleared, openCount, apiCalls, disconnects>>

----------------------------------------------------------------------------
(* connect                                                                 *)

\* serial.Serial(...) opens the port and is assigned to self.serial_conn
ConnectOpen ==
    /\ pc = "connect_open"
    /\ \E o \in OpenOutcomes(transport) :
         IF o = "ok"
         THEN /\ serial_conn' = "Serial"
              /\ is_open' = TRUE
              /\ in_buf' \in OpenBuffers(transport)
              /\ pc' = "connect_reset_input"
              /\ openCount' = openCount + 1
              /\ cleared' = {}
              /\ UNCHANGED flowVars
         ELSE /\ Unwind(o, "connect")
              /\ UNCHANGED <<serial_conn, is_open, in_buf, openCount, cleared>>
    /\ UNCHANGED <<transport, success, closeCount>>
    /\ UNCHANGED attemptVars
    /\ UNCHANGED intrVars
    /\ UNCHANGED phaseVars
    /\ UNCHANGED <<summary, intervalWaits, pauses, apiCalls, disconnects>>

\* variant: the stale input is not discarded when the port is opened
ClearedAtOpen_Keeps(buf) == buf

\* effect of reset_input_buffer() on the input buffer right after the open
ClearedAtOpen(buf) == {}

\* self.serial_conn.reset_input_buffer()
ConnectResetInput ==
    /\ pc = "connect_reset_input"
    /\ \E o \in CallOutcomes(transport) :
         IF o = "ok"
         THEN /\ in_buf' = ClearedAtOpen(in_buf)
              /\ cleared' = cleared \cup {"input"}
              /\ pc' = "connect_reset_output"
              /\ UNCHANGED flowVars
         ELSE /\ Unwind(o, "connect")
              /\ UNCHANGED <<in_buf, cleared>>
    /\ UNCHANGED <<transport, serial_conn, is_open, success, closeCount>>
    /\ UNCHANGED attemptVars
    /\ UNCHANGED intrVars
    /\ UNCHANGED phaseVars
    /\ UNCHANGED <<summary, intervalWaits, pauses, openCount, apiCalls, disconnects>>

\* self.serial_conn.reset_output_buffer(); connect returns True
ConnectResetOutput ==
    /\ pc = "connect_reset_output"
    /\ \E o \in CallOutcomes(transport) :
         IF o = "ok"
         THEN /\ pc' = "main_run"
              /\ cleared' = cleared \cup {"output"}
              /\ UNCHANGED flowVars
         ELSE /\ Unwind(o, "connect")
              /\ UNCHANGED cleared
    /\ UNCHANGED <<transport, serial_conn, is_open, in_buf, success, closeCount>>
    /\ UNCHANGED attemptVars
    /\ UNCHANGED intrVars
    /\ UNCHANGED phaseVars
    /\ UNCHANGED <<summary, intervalWaits, pauses, openCount, apiCalls, disconnects>>

\* main: connect returned False; print the hints and sys.exit(1)
MainConnectFailed ==
    /\ pc = "main_connect_failed"
    /\ pc' = "exited"
    /\ exitCode' = 1
    /\ UNCHANGED <<transport, serial_conn, is_open, in_buf, phase, i, successful,
                   phase_success, bytes_written, send_result, exc, success,
                   closeCount>>
    /\ UNCHANGED attemptVars
    /\ UNCHANGED intrVars
    /\ UNCHANGED phaseVars
    /\ UNCHANGED histVars

\* main: connect returned True; call run_full_test (banner, then phase 1)
MainRun ==
    /\ pc = "main_run"
    /\ pc' = "smt_begin"
    /\ phase' = 1
    /\ UNCHANGED <<transport, serial_conn, is_open, in_buf, i, successful,
                   phase_success, bytes_written, send_result, exc, success,
                   exitCode, closeCount>>
    /\ UNCHANGED attemptVars
    /\ UNCHANGED intrVars
    /\ UNCHANGED phaseVars
    /\ UNCHANGED histVars

----------------------------------------------------------------------------
(* send_packet_multiple_times and send_packet                              *)

\* variant: the loop runs one iteration too many
LoopContinues_OffByOne(idx, count) == idx <= count

\* for i in range(count): another iteration follows index idx
LoopContinues(idx, count) == idx < count

\* variant: the is_open test is missing from send_packet's precondition
ChannelReady_HandleOnly == serial_conn # "None"

\* send_packet's precondition: self.serial_conn and self.serial_conn.is_open
ChannelReady == serial_conn # "None" /\ is_open

\* variant: the length check only rejects an overlong count
WriteComplete_AtMost(n, len) == n <= len

\* variant: the length check only rejects an empty write
WriteComplete_NonZero(n, len) == n > 0

\* the write is complete: not (bytes_written != len(packet))
WriteComplete(n, len) == n = len

\* variant: success is reported only when a reply was read
ReturnAfterRead_NeedsReply(response) ==
    [success |-> response # None, response |-> response]

\* return True, response
ReturnAfterRead(response) == [success |-> TRUE, response |-> response]

\* variant: the counter is incremented outside the "if success"
Tally_Always(s, ok) == s + 1

\* variant: the counter is never incremented
Tally_Never(s, ok) == s

\* if success: successful += 1
Tally(s, ok) == IF ok THEN s + 1 ELSE s

\* variant: the wait also follows the last transmission
WaitsAfter_Always(idx, count) == idx < count

\* if i < count - 1: time.sleep(interval)
WaitsAfter(idx, count) == idx < count - 1

\* variant: the settle delay is taken before the flush
StepAfter_SleepBeforeFlush(p) ==
    CASE p = "sp_reset_input" -> "sp_write"
      [] p = "sp_write" -> "sp_sleep"
      [] p = "sp_sleep" -> "sp_flush"
      [] p = "sp_flush" -> "sp_read"

\* the statement of send_packet's try body that follows statement p
StepAfter(p) ==
    CASE p = "sp_reset_input" -> "sp_write"
      [] p = "sp_write" -> "sp_flush"
      [] p = "sp_flush" -> "sp_sleep"
      [] p = "sp_sleep" -> "sp_read"

\* variant: the input buffer is not discarded before the send
AfterReset_Keeps(buf) == buf

\* effect of reset_input_buffer() on the input buffer before the send
AfterReset(buf) == {}

\* variant: phase 5 is left out of the grand total
Total_WithoutLast(ps) == ps[1] + ps[2] + ps[3] + ps[4]

\* the grand total of the summary: phase1_success + ... + phase5_success
Total(ps) == ps[1] + ps[2] + ps[3] + ps[4] + ps[5]

\* phase banner; successful = 0; the loop starts at index 0
SmtBegin ==
    /\ pc = "smt_begin"
    /\ successful' = 0
    /\ i' = 0
    /\ pc' = "smt_loop"
    /\ UNCHANGED <<transport, serial_conn, is_open, in_buf, phase, phase_success,
                   bytes_written, send_result, exc, success, exitCode, closeCount>>
    /\ UNCHANGED attemptVars
    /\ UNCHANGED intrVars
    /\ okReturns' = 0
    /\ intervalWaits' = 0
    /\ UNCHANGED <<summary, pauses, cleared, openCount, apiCalls, disconnects>>

\* loop header; on another iteration send_packet is called and checks that
\* the connection is established
SmtLoop ==
    /\ pc = "smt_loop"
    /\ IF LoopContinues(i, PhaseCount)
       THEN /\ attemptLog' = Append(attemptLog,
                                    [phase |-> phase, name |-> PhaseName(phase),
                                     packet |-> PhasePacket(phase)])
            /\ ops' = <<>>
            /\ lastWrite' = "none"
            /\ spRaised' = "none"
            /\ in_buf' = IF in_buf = {} THEN {} ELSE {"stale"}
            /\ IF ChannelReady
               THEN /\ pc' = "sp_reset_input"
                    /\ send_result' = NoResult
               ELSE /\ pc' = "smt_tally"
                    /\ send_result' = [success |-> FALSE, response |-> None]
       ELSE /\ pc' = "smt_return"
            /\ UNCHANGED <<in_buf, send_result>>
            /\ UNCHANGED attemptVars
    /\ UNCHANGED <<transport, serial_conn, is_open, phase, i, successful,
                   phase_success, bytes_written, exc, success, exitCode, closeCount>>
    /\ UNCHANGED intrVars
    /\ UNCHANGED phaseVars
    /\ UNCHANGED histVars

\* self.serial_conn.reset_input_buffer()
SpResetInput ==
    /\ pc = "sp_reset_input"
    /\ ops' = Append(ops, "reset_input_buffer")
    /\ \E o \in CallOutcomes(transport) :
         IF o = "ok"
         THEN /\ in_buf' = AfterReset(in_buf)
              /\ pc' = StepAfter("sp_reset_input")
              /\ UNCHANGED spRaised
              /\ UNCHANGED flowVars
         ELSE /\ Unwind(o, "send_packet")
              /\ spRaised' = o
              /\ UNCHANGED in_buf
    /\ UNCHANGED <<transport, serial_conn, is_open, success, closeCount,
                   attemptLog, lastWrite>>
    /\ UNCHANGED intrVars
    /\ UNCHANGED phaseVars
    /\ UNCHANGED histVars

\* bytes_written = self.serial_conn.write(packet), and the length check
SpWrite ==
    /\ pc = "sp_write"
    /\ ops' = Append(ops, "write")
    /\ \E o \in WriteOutcomes(transport) :
         CASE o = "full" ->
                /\ lastWrite' = "full"
                /\ \E n \in {Len(PhasePacket(phase))} :
                     IF WriteComplete(n, Len(PhasePacket(phase)))
                     THEN /\ pc' = StepAfter("sp_write")
                          /\ bytes_written' = n
                          /\ UNCHANGED send_result
                     ELSE /\ pc' = "smt_tally"
                          /\ bytes_written' = -1
                          /\ send_result' = [success |-> FALSE, response |-> None]
                /\ UNCHANGED <<spRaised, exc, i, successful, exitCode, phase,
                               phase_success>>
           [] o = "partial" ->
                /\ lastWrite' = "partial"
                /\ \E n \in PartialCounts(Len(PhasePacket(phase))) :
                     IF WriteComplete(n, Len(PhasePacket(phase)))
                     THEN /\ pc' = StepAfter("sp_write")
                          /\ bytes_written' = n
                          /\ UNCHANGED send_result
                     ELSE /\ pc' = "smt_tally"
                          /\ bytes_written' = -1
                          /\ send_result' = [success |-> FALSE, response |-> None]
                /\ UNCHANGED <<spRaised, exc, i, successful, exitCode, phase,
                               phase_success>>
           [] OTHER ->
                /\ lastWrite' = "raised"
                /\ spRaised' = o
                /\ Unwind(o, "send_packet")
    /\ UNCHANGED <<transport, serial_conn, is_open, in_buf, success, closeCount,
                   attemptLog>>
    /\ UNCHANGED intrVars
    /\ UNCHANGED phaseVars
    /\ UNCHANGED histVars

\* self.serial_conn.flush()
SpFlush ==
    /\ pc = "sp_flush"
    /\ ops' = Append(ops, "flush")
    /\ \E o \in CallOutcomes(transport) :
         IF o = "ok"
         THEN /\ pc' = StepAfter("sp_flush")
              /\ UNCHANGED spRaised
              /\ UNCHANGED flowVars
         ELSE /\ Unwind(o, "send_packet")
              /\ spRaised' = o
    /\ UNCHANGED <<transport, serial_conn, is_open, in_buf, success, closeCount,
                   attemptLog, lastWrite>>
    /\ UNCHANGED intrVars
    /\ UNCHANGED phaseVars
    /\ UNCHANGED histVars

\* time.sleep(0.5): the settle delay
SpSleep ==
    /\ pc = "sp_sleep"
    /\ ops' = Append(ops, "sleep")
    /\ pc' = StepAfter("sp_sleep")
    /\ UNCHANGED <<transport, serial_conn, is_open, in_buf, success, closeCount,
                   attemptLog, lastWrite, spRaised>>
    /\ UNCHANGED flowVars
    /\ UNCHANGED intrVars
    /\ UNCHANGED phaseVars
    /\ UNCHANGED histVars

\* response = None; if in_waiting > 0: response = read(in_waiting);
\* return True, response
SpRead ==
    /\ pc = "sp_read"
    /\ \E o \in CallOutcomes(transport) :
         IF o # "ok"
         THEN /\ ops' = Append(ops, "in_waiting")
              /\ Unwind(o, "send_packet")
              /\ spRaised' = o
              /\ UNCHANGED in_buf
         ELSE IF in_buf = {}
         THEN /\ ops' = Append(ops, "in_waiting")
              /\ send_result' = ReturnAfterRead(None)
              /\ bytes_written' = -1
              /\ pc' = "smt_tally"
              /\ UNCHANGED <<in_buf, spRaised, exc, i, successful, exitCode,
                             phase, phase_success>>
         ELSE /\ ops' = ops \o <<"in_waiting", "read">>
              /\ \E r \in ReadOutcomes(transport) :
                   IF r = "ok"
                   THEN /\ send_result' = ReturnAfterRead(in_buf)
                        /\ bytes_written' = -1
                        /\ in_buf' = {}
                        /\ pc' = "smt_tally"
                        /\ UNCHANGED <<spRaised, exc, i, successful, exitCode,
                                       phase, phase_success>>
                   ELSE /\ Unwind(r, "send_packet")
                        /\ spRaised' = r
                        /\ UNCHANGED in_buf
    /\ UNCHANGED <<transport, serial_conn, is_open, success, closeCount,
                   attemptLog, lastWrite>>
    /\ UNCHANGED intrVars
    /\ UNCHANGED phaseVars
    /\ UNCHANGED histVars

\* success, response = ...; count the attempt; decide on the interval wait
SmtTally ==
    /\ pc = "smt_tally"
    /\ successful' = Tally(successful, send_result.success)
    /\ bytes_written' = -1
    /\ IF WaitsAfter(i, PhaseCount)
       THEN /\ pc' = "smt_interval"
            /\ UNCHANGED i
       ELSE /\ pc' = "smt_loop"
            /\ i' = i + 1
    /\ send_result' = NoResult
    /\ ops' = <<>>
    /\ lastWrite' = "none"
    /\ spRaised' = "none"
    /\ UNCHANGED <<transport, serial_conn, is_open, in_buf, phase, phase_success,
                   exc, success, exitCode, closeCount, attemptLog>>
    /\ UNCHANGED intrVars
    /\ okReturns' = IF send_result.success THEN okReturns + 1 ELSE okReturns
    /\ UNCHANGED histVars

\* time.sleep(interval) before the next transmission
SmtInterval ==
    /\ pc = "smt_interval"
    /\ i' = i + 1
    /\ pc' = "smt_loop"
    /\ UNCHANGED <<transport, serial_conn, is_open, in_buf, phase, successful,
                   phase_success, bytes_written, send_result, exc, success,
                   exitCode, closeCount>>
    /\ UNCHANGED attemptVars
    /\ UNCHANGED intrVars
    /\ UNCHANGED phaseVars
    /\ intervalWaits' = intervalWaits + 1
    /\ UNCHANGED <<summary, pauses, cleared, openCount, apiCalls, disconnects>>

\* "Completed ... test sequence"; return successful (assigned to phaseN_success)
SmtReturn ==
    /\ pc = "smt_return"
    /\ phase_success' = Append(phase_success, successful)
    /\ successful' = 0
    /\ i' = 0
    /\ pc' = IF phase < NumPhases THEN "rft_pause" ELSE "rft_summary"
    /\ UNCHANGED <<transport, serial_conn, is_open, in_buf, phase, bytes_written,
                   send_result, exc, success, exitCode, closeCount>>
    /\ UNCHANGED attemptVars
    /\ UNCHANGED intrVars
    /\ UNCHANGED phaseVars
    /\ UNCHANGED histVars

----------------------------------------------------------------------------
(* run_full_test, disconnect and main                                      *)

\* time.sleep(2) between phases, then the next phase's banner
RftPause ==
    /\ pc = "rft_pause"
    /\ phase' = phase + 1
    /\ pc' = "smt_begin"
    /\ UNCHANGED <<transport, serial_conn, is_open, in_buf, i, successful,
                   phase_success, bytes_written, send_result, exc, success,
                   exitCode, closeCount>>
    /\ UNCHANGED attemptVars
    /\ UNCHANGED intrVars
    /\ UNCHANGED phaseVars
    /\ pauses' = pauses + 1
    /\ UNCHANGED <<summary, intervalWaits, cleared, openCount, apiCalls, disconnects>>

\* TEST SUMMARY is logged: the per-phase counts and the grand total
RftSummary ==
    /\ pc = "rft_summary"
    /\ summary' = Total(phase_success)
    /\ pc' = "rft_return"
    /\ UNCHANGED <<transport, serial_conn, is_open, in_buf, phase, i, successful,
                   phase_success, bytes_written, send_result, exc, success,
                   exitCode, closeCount>>
    /\ UNCHANGED attemptVars
    /\ UNCHANGED intrVars
    /\ UNCHANGED phaseVars
    /\ UNCHANGED <<intervalWaits, pauses, cleared, openCount, apiCalls, disconnects>>

\* return True (assigned to main's success)
RftReturn ==
    /\ pc = "rft_return"
    /\ success' = "True"
    /\ phase' = 0
    /\ phase_success' = <<>>
    /\ pc' = "main_disconnect"
    /\ UNCHANGED <<transport, serial_conn, is_open, in_buf, i, successful,
                   bytes_written, send_result, exc, exitCode, closeCount>>
    /\ UNCHANGED attemptVars
    /\ UNCHANGED intrVars
    /\ UNCHANGED phaseVars
    /\ UNCHANGED histVars

\* except KeyboardInterrupt / except Exception: log, return False
RftExcept ==
    /\ pc = "rft_except"
    /\ success' = "False"
    /\ exc' = "none"
    /\ phase' = 0
    /\ phase_success' = <<>>
    /\ pc' = "main_disconnect"
    /\ UNCHANGED <<transport, serial_conn, is_open, in_buf, i, successful,
                   bytes_written, send_result, exitCode, closeCount>>
    /\ UNCHANGED attemptVars
    /\ UNCHANGED intrVars
    /\ UNCHANGED phaseVars
    /\ UNCHANGED histVars

\* variant: the is_open test is missing from disconnect's guard
ShouldClose_HandleOnly(conn, open) == conn # "None"

\* disconnect's guard: self.serial_conn and self.serial_conn.is_open
ShouldClose(conn, open) == conn # "None" /\ open

\* disconnect: close the connection if it is open
Disconnect ==
    /\ disconnects' = disconnects + 1
    /\ IF ShouldClose(serial_conn, is_open)
       THEN /\ is_open' = FALSE
            /\ closeCount' = closeCount + 1
       ELSE UNCHANGED <<is_open, closeCount>>

\* main: tester.disconnect()
MainDisconnect ==
    /\ pc = "main_disconnect"
    /\ Disconnect
    /\ pc' = "main_exit"
    /\ UNCHANGED <<transport, serial_conn, in_buf, phase, i, successful,
                   phase_success, bytes_written, send_result, exc, success,
                   exitCode>>
    /\ UNCHANGED attemptVars
    /\ UNCHANGED intrVars
    /\ UNCHANGED phaseVars
    /\ UNCHANGED <<summary, intervalWaits, pauses, cleared, openCount, apiCalls>>

\* sys.exit(0 if success else 1)
ExitStatus(ok) == IF ok = "True" THEN 0 ELSE 1

\* main: exit with the code for success
MainExit ==
    /\ pc = "main_exit"
    /\ exitCode' = ExitStatus(success)
    /\ pc' = "exited"
    /\ UNCHANGED <<transport, serial_conn, is_open, in_buf, phase, i, successful,
                   phase_success, bytes_written, send_result, exc, success,
                   closeCount>>
    /\ UNCHANGED attemptVars
    /\ UNCHANGED intrVars
    /\ UNCHANGED phaseVars
    /\ UNCHANGED histVars

----------------------------------------------------------------------------
(* The environment's own steps.                                            *)

\* the operator interrupts: KeyboardInterrupt is raised at the current
\* position and travels to the innermost handler that catches it
Interrupt ==
    /\ pc # "exited"
    /\ nIntr' = nIntr + 1
    /\ Unwind("KeyboardInterrupt", FrameOf(pc))
    /\ okReturns' = 0
    /\ intervalWaits' = 0
    /\ UNCHANGED <<summary, pauses, cleared, openCount, apiCalls, disconnects>>
    /\ IF FrameOf(pc) \in {"send_packet", "run_full_test"}
       THEN /\ intrPhase' = phase
            /\ intrSummary' = (pc \in {"rft_summary", "rft_return"})
       ELSE UNCHANGED <<intrPhase, intrSummary>>
    /\ ops' = <<>>
    /\ lastWrite' = "none"
    /\ spRaised' = "none"
    /\ UNCHANGED <<transport, serial_conn, is_open, in_buf, success, closeCount,
                   attemptLog>>

\* positions at which bytes arrive. The program inspects the buffer only
\* at sp_read and empties it only at sp_reset_input, so bytes arriving
\* after an attempt's reset are the same to it as bytes arriving right
\* before its read, and bytes arriving at any other time are the same as
\* bytes arriving right before the next attempt begins.
ArrivalPcs == {"smt_loop", "sp_read"}

\* the peer (or line noise) delivers bytes into the input buffer
PeerBytes ==
    /\ pc \in ArrivalPcs
    /\ is_open
    /\ transport # "acceptsNeverReplies"
    /\ "fresh" \notin in_buf
    /\ in_buf' = in_buf \cup {"fresh"}
    /\ UNCHANGED <<pc, transport, serial_conn, is_open, phase, i, successful,
                   phase_success, bytes_written, send_result, exc, success,
                   exitCode, closeCount>>
    /\ UNCHANGED attemptVars
    /\ UNCHANGED intrVars
    /\ UNCHANGED phaseVars
    /\ UNCHANGED histVars

----------------------------------------------------------------------------

Next ==
    \/ ConnectOpen
    \/ ConnectResetInput
    \/ ConnectResetOutput
    \/ MainConnectFailed
    \/ MainRun
    \/ SmtBegin
    \/ SmtLoop
    \/ SpResetInput
    \/ SpWrite
    \/ SpFlush
    \/ SpSleep
    \/ SpRead
    \/ SmtTally
    \/ SmtInterval
    \/ SmtReturn
    \/ RftPause
    \/ RftSummary
    \/ RftReturn
    \/ RftExcept
    \/ MainDisconnect
    \/ MainExit
    \/ Interrupt
    \/ PeerBytes

Spec == Init /\ [][Next]_vars

----------------------------------------------------------------------------
(* The class used directly: a caller invokes the public methods connect,   *)
(* disconnect and send_packet_multiple_times of one RS485Tester in any     *)
(* order, including before connect and after disconnect.                   *)

\* method calls a direct user makes in one behaviour
MaxApiCalls == 4

InitApi ==
    /\ pc = "api_idle"
    /\ transport \in TransportKinds
    /\ serial_conn = "None"
    /\ is_open = FALSE
    /\ in_buf = {}
    /\ phase = 0
    /\ i = 0
    /\ successful = 0
    /\ phase_success = <<>>
    /\ bytes_written = -1
    /\ send_result = NoResult
    /\ exc = "none"
    /\ success = "unset"
    /\ exitCode = -1
    /\ attemptLog = <<>>
    /\ ops = <<>>
    /\ lastWrite = "none"
    /\ spRaised = "none"
    /\ okReturns = 0
    /\ closeCount = 0
    /\ nIntr = 0
    /\ intrPhase = 0
    /\ intrSummary = FALSE
    /\ summary = -1
    /\ intervalWaits = 0
    /\ pauses = 0
    /\ cleared = {}
    /\ openCount = 0
    /\ apiCalls = 0
    /\ disconnects = 0

\* the caller invokes connect() on a tester that has no connection yet
ApiConnect ==
    /\ pc = "api_idle"
    /\ apiCalls < MaxApiCalls
    /\ serial_conn = "None"
    /\ openCount = 0
    /\ apiCalls' = apiCalls + 1
    /\ pc' = "connect_open"
    /\ UNCHANGED <<transport, serial_conn, is_open, in_buf, success, closeCount>>
    /\ UNCHANGED flowVars
    /\ UNCHANGED attemptVars
    /\ UNCHANGED intrVars
    /\ UNCHANGED phaseVars
    /\ UNCHANGED <<summary, intervalWaits, pauses, cleared, openCount, disconnects>>

\* connect returned True or False to the caller
ApiConnectReturned ==
    /\ pc \in {"main_run", "main_connect_failed"}
    /\ pc' = "api_idle"
    /\ UNCHANGED <<transport, serial_conn, is_open, in_buf, success, closeCount>>
    /\ UNCHANGED flowVars
    /\ UNCHANGED attemptVars
    /\ UNCHANGED intrVars
    /\ UNCHANGED phaseVars
    /\ UNCHANGED histVars

\* the caller invokes disconnect()
ApiDisconnect ==
    /\ pc = "api_idle"
    /\ apiCalls < MaxApiCalls
    /\ apiCalls' = apiCalls + 1
    /\ Disconnect
    /\ UNCHANGED <<pc, transport, serial_conn, in_buf, success>>
    /\ UNCHANGED flowVars
    /\ UNCHANGED attemptVars
    /\ UNCHANGED intrVars
    /\ UNCHANGED phaseVars
    /\ UNCHANGED <<summary, intervalWaits, pauses, cleared, openCount>>

\* the caller invokes send_packet_multiple_times with a catalog packet
ApiSendMultiple ==
    /\ pc = "api_idle"
    /\ apiCalls < MaxApiCalls
    /\ apiCalls' = apiCalls + 1
    /\ \E p \in 1..NumPhases : phase' = p
    /\ pc' = "smt_begin"
    /\ UNCHANGED <<transport, serial_conn, is_open, in_buf, i, successful,
                   phase_success, bytes_written, send_result, exc, success,
                   exitCode, closeCount>>
    /\ UNCHANGED attemptVars
    /\ UNCHANGED intrVars
    /\ UNCHANGED phaseVars
    /\ UNCHANGED <<summary, intervalWaits, pauses, cleared, openCount, disconnects>>

\* send_packet_multiple_times returned its count to the caller
ApiPhaseReturned ==
    /\ pc \in {"rft_pause", "rft_summary"}
    /\ pc' = "api_idle"
    /\ phase' = 0
    /\ phase_success' = <<>>
    /\ attemptLog' = <<>>
    /\ okReturns' = 0
    /\ intervalWaits' = 0
    /\ UNCHANGED <<transport, serial_conn, is_open, in_buf, i, successful,
                   bytes_written, send_result, exc, success, exitCode,
                   closeCount, ops, lastWrite, spRaised>>
    /\ UNCHANGED intrVars
    /\ UNCHANGED <<summary, pauses, cleared, openCount, apiCalls, disconnects>>

NextApi ==
    \/ ApiConnect
    \/ ApiConnectReturned
    \/ ApiDisconnect
    \/ ApiSendMultiple
    \/ ApiPhaseReturned
    \/ ConnectOpen
    \/ ConnectResetInput
    \/ ConnectResetOutput
    \/ SmtBegin
    \/ SmtLoop
    \/ SpResetInput
    \/ SpWrite
    \/ SpFlush
    \/ SpSleep
    \/ SpRead
    \/ SmtTally
    \/ SmtInterval
    \/ SmtReturn
    \/ PeerBytes

SpecApi == InitApi /\ [][NextApi]_vars

\* the run ended: the process has exited
Exited == pc = "exited"

TypeOK ==
    /\ transport \in TransportKinds
    /\ serial_conn \in {"None", "Serial"}
    /\ is_open \in BOOLEAN
    /\ in_buf \subseteq {"stale", "fresh"}
    /\ phase \in 0..NumPhases
    /\ i \in 0..(PhaseCount + 1)
    /\ successful \in 0..(PhaseCount + 1)
    /\ Len(phase_success) <= NumPhases
    /\ success \in {"unset", "True", "False"}
    /\ exitCode \in {-1, 0, 1, 130}
    /\ nIntr \in 0..2
    /\ summary \in -1..(NumPhases * PhaseCount)
    /\ cleared \subseteq {"input", "output"}

----------------------------------------------------------------------------
(* Properties.                                                             *)

\* positions after run_full_test has returned to main
AfterRunPcs == {"main_disconnect", "main_exit", "exited"}

\* number of send_packet calls started in phase p
StartedIn(p) == Cardinality({k \in DOMAIN attemptLog : attemptLog[k].phase = p})

\* the failed-attempt value of send_packet
FailedAttempt == [success |-> FALSE, response |-> None]

\* C1: on every exit path the serial channel is not open when the process
\* exits: if the transport was opened, it has been closed before termination.
C1_ClosedOnEveryExit ==
    Exited => (~is_open /\ (serial_conn = "Serial" => closeCount >= 1))

\* C2: an interrupt arriving while run_full_test executes phase k ends the
\* run: control never returns to the phases, so no attempt of a phase later
\* than k is ever started; and when that interrupt is the only one,
\* run_full_test returns False and the underlying close is performed exactly
\* once before the process exits.
C2_InterruptStopsRun ==
    intrPhase > 0 =>
        /\ pc \in {"rft_except"} \cup AfterRunPcs
        /\ \A k \in DOMAIN attemptLog : attemptLog[k].phase <= intrPhase
        /\ closeCount <= 1
        /\ (nIntr = 1 /\ pc \in AfterRunPcs) => success = "False"
        /\ (nIntr = 1 /\ Exited) => (closeCount = 1 /\ ~is_open)

\* C2 witness: interrupted once in phase 2, the process has exited with one
\* close and a False result
C2_Witness ==
    /\ Exited
    /\ intrPhase = 2
    /\ nIntr = 1
    /\ closeCount = 1
    /\ success = "False"
    /\ StartedIn(2) >= 1
    /\ StartedIn(3) = 0

\* C3 as stated: send_packet returns success=true whenever the write wrote
\* all bytes, whatever happens afterwards in the attempt (including a
\* failure while flushing, querying the input count or reading).
C3_SuccessWheneverWritten ==
    (pc = "smt_tally" /\ lastWrite = "full") => send_result.success

\* C3 amended: send_packet returns success=true whenever the write wrote all
\* bytes and the flush, the input count query and the read raise no error,
\* whether or not a reply is available; if one of them raises, it returns
\* the failed attempt.
C3_SuccessWhenWrittenAndNoError ==
    (pc = "smt_tally" /\ lastWrite = "full") =>
        /\ spRaised = "none" => send_result.success
        /\ spRaised # "none" => send_result = FailedAttempt

\* C3 witness: a full write with no reply available returned success
C3_Witness ==
    /\ pc = "smt_tally"
    /\ lastWrite = "full"
    /\ spRaised = "none"
    /\ send_result = [success |-> TRUE, response |-> None]

C5_AllWritesFail ==
    transport = "failsEveryWrite" =>
        /\ successful = 0
        /\ \A k \in DOMAIN phase_success : phase_success[k] = 0
        /\ pc = "rft_summary" =>
               (Len(phase_success) = 5 /\ \A p \in 1..5 : StartedIn(p) = 5)
        /\ (nIntr = 0 /\ pc \in AfterRunPcs /\ success # "unset") =>
               (success = "True" /\ Len(attemptLog) = 25)
        /\ (nIntr = 0 /\ Exited /\ success # "unset") => exitCode = 0

\* C5 witness: such a run has exited with code 0 after 25 attempts
C5_Witness ==
    /\ transport = "failsEveryWrite"
    /\ Exited
    /\ nIntr = 0
    /\ exitCode = 0
    /\ Len(attemptLog) = 25

\* C6: in every phase and at every point, successful <= attempts started
\* <= requested count; every returned count lies in 0..count.
C6_SuccessfulBounded ==
    /\ phase > 0 =>
           /\ 0 <= successful
           /\ successful <= StartedIn(phase)
           /\ StartedIn(phase) <= PhaseCount
    /\ \A p \in 1..NumPhases : StartedIn(p) <= PhaseCount
    /\ \A k \in DOMAIN phase_success :
           0 <= phase_success[k] /\ phase_success[k] <= PhaseCount

\* C6 witness: a phase returned the full count, another a partial one
C6_Witness ==
    /\ Len(phase_success) >= 2
    /\ phase_success[1] = PhaseCount
    /\ phase_success[2] = 2

\* C7: without an interrupt send_packet_multiple_times performs exactly
\* count calls of send_packet, whatever their outcomes, and returns the
\* number of them that succeeded.
C7_NeverAbortsEarly ==
    /\ pc = "smt_return" =>
           (StartedIn(phase) = PhaseCount /\ successful = okReturns)
    /\ pc \in {"rft_pause", "rft_summary"} =>
           /\ Len(phase_success) = phase
           /\ phase_success[phase] = okReturns
           /\ StartedIn(phase) = PhaseCount

\* C7 witness: a phase with failed and successful sends has completed
C7_Witness ==
    /\ pc = "rft_pause"
    /\ StartedIn(phase) = PhaseCount
    /\ phase_success[phase] = 3

\* the packets of the five phases, in order
ExpectedPackets ==
    <<OFFLINE_QUERY_PACKET, REMOVE_REGISTER_PACKET, OFFLINE_QUERY_PACKET,
      ALLOCATE_REGISTER_ADDRESS_PACKET, READ_DATA_PACKET>>

C9_ErrorsBecomeFailedAttempt ==
    /\ (spRaised # "none" \/ lastWrite = "partial") =>
           (pc = "smt_tally" /\ send_result = FailedAttempt)
    /\ exc \notin ExceptionClasses
    /\ (Exited /\ nIntr = 0 /\ success # "unset") => success = "True"

\* C9 witness: a write timeout in a non-final attempt reached the tally
C9_Witness ==
    /\ pc = "smt_tally"
    /\ spRaised = "SerialTimeoutException"
    /\ i < PhaseCount - 1
    /\ send_result = FailedAttempt

\* C10: after a partial write send_packet returns the failed attempt and
\* issues nothing further in that attempt: the write is the last transport
\* operation, and nothing was raised.
C10_PartialWriteStops ==
    lastWrite = "partial" =>
        /\ pc = "smt_tally"
        /\ send_result = FailedAttempt
        /\ ops = <<"reset_input_buffer", "write">>
        /\ spRaised = "none"

\* C10 witness: a partial write has returned
C10_Witness ==
    /\ lastWrite = "partial"
    /\ pc = "smt_tally"
    /\ phase = 1

\* the channel handle is present and open
ChannelOpenNow == serial_conn = "Serial" /\ is_open

\* C11: no buffer reset, write, flush or read is issued to the transport
\* while the channel handle is absent or closed; an attempt made in that
\* state returns the failed attempt and is never counted as successful.
C11_NoTransmitWhenClosed ==
    /\ pc \in SendPacketPcs => ChannelOpenNow
    /\ ops # <<>> => ChannelOpenNow
    /\ (phase > 0 /\ ~ChannelOpenNow) =>
           /\ successful = 0
           /\ okReturns = 0
           /\ lastWrite = "none"
           /\ pc = "smt_tally" => send_result = FailedAttempt
           /\ \A k \in DOMAIN phase_success : phase_success[k] = 0

\* C11 witness: an attempt on a connection that was opened and then closed
\* has returned the failed attempt without any transport operation
C11_Witness ==
    /\ pc = "smt_tally"
    /\ serial_conn = "Serial"
    /\ ~is_open
    /\ i = 2
    /\ ops = <<>>
    /\ send_result = FailedAttempt

\* C12: disconnect on a never-opened channel performs no close, and over
\* any sequence of disconnect calls after one successful open the
\* underlying close is performed at most once.
C12_DisconnectIdempotent ==
    /\ closeCount <= openCount
    /\ closeCount <= disconnects
    /\ serial_conn = "None" => closeCount = 0
    /\ closeCount >= 1 => ~is_open

\* C12 witness: two disconnect calls after one open, one close
C12_Witness ==
    /\ openCount = 1
    /\ disconnects = 2
    /\ closeCount = 1
    /\ pc = "api_idle"

\* the connection attempt failed and main took the sys.exit(1) path
ConnectFailedExit == Exited /\ nIntr = 0 /\ success = "unset"

\* C13: the exit code is 0 exactly when the full phase sequence completed,
\* and it is 1 when the connection fails or an interrupt arrives anywhere
\* after start-up.
C13_ExitCodes ==
    Exited =>
        /\ exitCode = 0 <=> summary # -1
        /\ ConnectFailedExit => exitCode = 1
        /\ nIntr > 0 => exitCode = 1

\* C14: on a transport that accepts every write in full, never has bytes
\* to read and whose calls raise no error, every attempt returns success
\* with an absent response and every phase counts 5 of 5.
C14_AcceptsNeverReplies ==
    transport = "acceptsNeverReplies" =>
        /\ in_buf = {}
        /\ pc = "smt_tally" => send_result = [success |-> TRUE, response |-> None]
        /\ pc = "smt_return" => successful = 5
        /\ \A k \in DOMAIN phase_success : phase_success[k] = 5
        /\ pc \in {"rft_summary", "rft_return"} =>
               (Len(phase_success) = 5 /\ Len(attemptLog) = 25)

\* C14 witness: the summary of such a run reports 25
C14_Witness ==
    /\ transport = "acceptsNeverReplies"
    /\ pc = "rft_return"
    /\ summary = 25
    /\ Len(attemptLog) = 25

\* the transport operations of one attempt, in program order
SendOrder ==
    <<"reset_input_buffer", "write", "flush", "sleep", "in_waiting", "read">>

\* s is a prefix of t
IsPrefix(s, t) == Len(s) <= Len(t) /\ SubSeq(t, 1, Len(s)) = s

\* C15: within an attempt the operations are issued in the order
\* discard-input, write, flush, settle delay, read-available; an attempt
\* starts with no operation of an earlier attempt pending, and a successful
\* attempt has issued all of them up to the input count query.
C15_StrictProgramOrder ==
    /\ IsPrefix(ops, SendOrder)
    /\ pc = "sp_reset_input" => (ops = <<>> /\ send_result = NoResult)
    /\ pc = "sp_write" => ops = SubSeq(SendOrder, 1, 1)
    /\ pc = "sp_flush" => ops = SubSeq(SendOrder, 1, 2)
    /\ pc = "sp_sleep" => ops = SubSeq(SendOrder, 1, 3)
    /\ pc = "sp_read" => ops = SubSeq(SendOrder, 1, 4)
    /\ (pc = "smt_tally" /\ send_result.success) =>
           ops \in {SubSeq(SendOrder, 1, 5), SendOrder}
    /\ pc \in {"smt_loop", "smt_interval", "smt_return"} => ops = <<>>

\* C15 witness: a later attempt has completed all six operations
C15_Witness ==
    /\ pc = "smt_tally"
    /\ ops = SendOrder
    /\ i >= 1
    /\ send_result.success

\* C16: in a phase the interval wait follows every attempt except the
\* last, whatever its outcome (count - 1 waits, none before the first
\* attempt, none after the last), and a run performs one delay between
\* consecutive phases (four in all, none after phase 5).
C16_WaitsBetweenAttempts ==
    /\ pc \in SendPacketPcs \cup {"smt_tally", "smt_interval"} =>
           intervalWaits = StartedIn(phase) - 1
    /\ pc = "smt_loop" =>
           intervalWaits = (IF i < PhaseCount THEN i ELSE PhaseCount - 1)
    /\ pc = "smt_return" => intervalWaits = PhaseCount - 1
    /\ phase > 0 => pauses = phase - 1
    /\ pc \in {"rft_summary", "rft_return"} => pauses = 4
    /\ success = "True" => pauses = 4
    /\ pauses <= 4

\* C16 witness: phase 5 with failed and successful attempts has finished
C16_Witness ==
    /\ pc = "smt_return"
    /\ phase = 5
    /\ intervalWaits = 4
    /\ pauses = 4
    /\ okReturns = 2

\* C17: the response of an attempt contains no byte that was in the input
\* buffer when the attempt began.
C17_NoStaleResponse ==
    /\ "stale" \notin send_result.response
    /\ pc \in {"sp_write", "sp_flush", "sp_sleep"} => in_buf = {}
    /\ pc = "sp_read" => "stale" \notin in_buf

\* C17 witness: a later attempt returned bytes that arrived after its reset
C17_Witness ==
    /\ pc = "smt_tally"
    /\ send_result = [success |-> TRUE, response |-> {"fresh"}]
    /\ i >= 1

\* C18: when connect returns True the channel is open and both buffers
\* were cleared after the open; no packet is written on a channel whose
\* buffers were not cleared at open.
C18_CleanChannelAtStart ==
    /\ pc = "main_run" =>
           /\ ChannelOpenNow
           /\ cleared = {"input", "output"}
           /\ in_buf = {}
    /\ lastWrite # "none" => cleared = {"input", "output"}
    /\ attemptLog # <<>> => cleared = {"input", "output"}

\* C18 witness: a packet was written in full after a clean open
C18_Witness ==
    /\ lastWrite = "full"
    /\ cleared = {"input", "output"}
    /\ openCount = 1

\* C19: whenever connect returns False the sequencer holds no open channel,
\* and the transport is not open when main exits on that path.
C19_NoChannelAfterFailedConnect ==
    /\ pc = "main_connect_failed" => ~is_open
    /\ ConnectFailedExit => ~is_open

RECURSIVE SumSeq(_)
\* the sum of the elements of a sequence of numbers
SumSeq(q) == IF q = <<>> THEN 0 ELSE Head(q) + SumSeq(Tail(q))

\* C20: the summary is emitted only after all five phases completed, its
\* grand total is the sum of the five per-phase counts, each in 0..5,
\* and so lies in 0..25.
C20_SummaryTotal ==
    /\ summary # -1 =>
           /\ summary \in 0..25
           /\ Len(attemptLog) = 25
           /\ pc \in {"rft_return", "rft_except"} \cup AfterRunPcs
    /\ pc = "rft_return" =>
           /\ Len(phase_success) = 5
           /\ \A k \in 1..5 : phase_success[k] \in 0..5
           /\ summary = SumSeq(phase_success)

\* C20 witness: a summary over unequal phase counts
C20_Witness ==
    /\ pc = "rft_return"
    /\ phase_success = <<5, 0, 3, 1, 4>>
    /\ summary = 13

====
